---- MODULE Spec2Model ----
(***************************************************************************)
(* Model of streamlit_app.py (DeepSeek document chat): the session state,  *)
(* the sidebar handlers, the conversation builder, the chat handler and    *)
(* the buffered and streaming completion clients.                          *)
(*                                                                         *)
(* Text is a sequence of tokens (strings); concatenation is \o, the empty  *)
(* string is <<>>, a slice text[:n] is Take(text, n).                      *)
(***************************************************************************)
EXTENDS Integers, Sequences, FiniteSets, TLC

VARIABLES
    messages,                \* st.session_state.messages (chat history)
    api_key,                 \* st.session_state.api_key
    uploaded_files_content,  \* st.session_state.uploaded_files_content (Document Store)
    documents_attached,      \* st.session_state.documents_attached
    stream,                  \* st.session_state.stream
    widget_files,            \* files currently held by the st.file_uploader widget
    pc,                      \* position of the script run
    prompt,                  \* value returned by st.chat_input in this run
    request,                 \* the Conversation Request in flight (<<>> when none)
    response,                \* the vendor's answer to the request of this run
    outcome,                 \* how the chat handler of this run ended
    posted,                  \* an HTTP POST was issued in this run
    pair_count,              \* requests carrying the document pair since the last user reset
    fresh_replace,           \* the store was replaced and no request built since has been answered
    sent_preambles,          \* document preambles included in some request so far
    gen                      \* state of the call_deepseek_api_stream generator

vars == <<messages, api_key, uploaded_files_content, documents_attached, stream,
          widget_files, pc, prompt, request, response, outcome, posted,
          pair_count, fresh_replace, sent_preambles, gen>>

sessionVars == <<messages, api_key, uploaded_files_content, documents_attached,
                 stream, widget_files>>

ghostVars == <<pair_count, fresh_replace, sent_preambles>>

(***************************************************************************)
(* Bounds of the model.                                                    *)
(***************************************************************************)
MaxHistory == 6
MaxLines == 3
MaxBuildHistory == 3

(***************************************************************************)
(* Program constants.                                                      *)
(***************************************************************************)
MaxDocChars == 50000
SectionChars == 8000
HttpOk == 200

(***************************************************************************)
(* Text helpers.                                                           *)
(***************************************************************************)
Min(a, b) == IF a <= b THEN a ELSE b

Take(s, n) == SubSeq(s, 1, Min(n, Len(s)))

StartsWith(s, prefix) ==
    /\ Len(s) >= Len(prefix)
    /\ SubSeq(s, 1, Len(prefix)) = prefix

Contains(s, sub) ==
    \E i \in 0..(Len(s) - Len(sub)) : SubSeq(s, i + 1, i + Len(sub)) = sub

Msg(role, content) == [role |-> role, content |-> content]

NoPrompt == <<>>

Prompts == {<<"p1">>, <<"p2">>}

\* The prompt submitted in the session's chat turns.
TurnPrompts == {<<"p1">>}

(***************************************************************************)
(* Session defaults (init_session_state).                                  *)
(***************************************************************************)
system_prompt == <<"You are an expert technical document analyst and code generator.">>

KeyPrefix == <<"s", "k", "-">>

ApiKeyInputs == {<<>>, <<"s", "k", "-", "1">>, <<"p", "k", "-", "1">>}

(***************************************************************************)
(* Uploaded files: the text is what the extractor for the file's type      *)
(* yields.  FileBatches are the selections the uploader widget can hold.   *)
(***************************************************************************)
FileA == [name |-> "a.pdf", text |-> <<"ta">>]

FileB == [name |-> "b.txt", text |-> <<"tb1", "tb2">>]

FileBatches == { <<>>, <<FileA>>, <<FileA, FileB>> }

process_uploaded_file(uploaded_file) ==
    [name |-> uploaded_file.name,
     content |-> Take(uploaded_file.text, MaxDocChars),
     size |-> Len(uploaded_file.text)]

RECURSIVE ProcessBatch(_)
ProcessBatch(files) ==
    IF files = <<>> THEN <<>>
    ELSE <<process_uploaded_file(Head(files))>> \o ProcessBatch(Tail(files))

(***************************************************************************)
(* Conversation builder.                                                   *)
(***************************************************************************)
PreambleIntro == "Please process the following documents. They are attached for reference throughout our conversation:\n\n"

AckText == <<"I have loaded the documents. I will refer to them as needed. Please tell me what you'd like me to do.">>

DocSection(idx, file) ==
    <<"--- Document ", ToString(idx), ": ", file.name, " ---\n">>
        \o Take(file.content, SectionChars) \o <<"\n\n">>

RECURSIVE DocContext(_, _)
DocContext(docs, idx) ==
    IF idx > Len(docs) THEN <<>>
    ELSE DocSection(idx, docs[idx]) \o DocContext(docs, idx + 1)

PreambleContent(docs) ==
    <<PreambleIntro, "=== DOCUMENTS ===\n\n">> \o DocContext(docs, 1)

DocumentPair(docs) ==
    << Msg("user", PreambleContent(docs)), Msg("assistant", AckText) >>

\* Mutant: the history is replayed unfiltered.
APIHistory_Unfiltered(history) == history

APIHistory(history) == SelectSeq(history, LAMBDA m : m.role \in {"user", "assistant"})

\* Mutant: the prompt is appended without the duplicate guard.
AppendPrompt_Always(msgs, new_user_prompt) == Append(msgs, Msg("user", new_user_prompt))

AppendPrompt(msgs, new_user_prompt) ==
    IF \/ msgs = <<>>
       \/ msgs[Len(msgs)].role # "user"
       \/ msgs[Len(msgs)].content # new_user_prompt
    THEN Append(msgs, Msg("user", new_user_prompt))
    ELSE msgs

\* Mutant: the documents are attached whatever the flag says.
AttachNeeded_IgnoreFlag(docs, attached) == docs # <<>>

AttachNeeded(docs, attached) == docs # <<>> /\ ~attached

build_conversation_messages(history, docs, attached, new_user_prompt) ==
    LET withSystem == << Msg("system", system_prompt) >>
        attach == AttachNeeded(docs, attached)
        withDocs == IF attach THEN withSystem \o DocumentPair(docs) ELSE withSystem
        withHistory == withDocs \o APIHistory(history)
    IN  [messages |-> AppendPrompt(withHistory, new_user_prompt),
         documents_attached |-> (attached \/ attach)]

(***************************************************************************)
(* Sidebar.                                                                *)
(***************************************************************************)
SidebarApiKey(key, api_key_input) ==
    IF api_key_input # <<>> THEN api_key_input ELSE key

\* Mutant: the upload handler replaces the store but keeps the flag.
SidebarUpload_KeepFlag(docs, attached, uploaded_files) ==
    IF uploaded_files # <<>>
    THEN [docs |-> ProcessBatch(uploaded_files), attached |-> attached]
    ELSE [docs |-> docs, attached |-> attached]

SidebarUpload(docs, attached, uploaded_files) ==
    IF uploaded_files # <<>>
    THEN [docs |-> ProcessBatch(uploaded_files), attached |-> FALSE]
    ELSE [docs |-> docs, attached |-> attached]

\* Mutant: Clear Documents empties the store but keeps the flag.
SidebarButtons_ClearKeepsFlag(history, up, button) ==
    IF up.docs # <<>> /\ button = "clear"
    THEN [docs |-> <<>>, attached |-> up.attached, messages |-> history, rerun |-> TRUE]
    ELSE LET att == IF up.docs # <<>> /\ button = "reattach" THEN FALSE ELSE up.attached
         IN  IF button = "new"
             THEN [docs |-> up.docs, attached |-> FALSE, messages |-> <<>>, rerun |-> TRUE]
             ELSE [docs |-> up.docs, attached |-> att, messages |-> history, rerun |-> FALSE]

SidebarButtons(history, up, button) ==
    IF up.docs # <<>> /\ button = "clear"
    THEN [docs |-> <<>>, attached |-> FALSE, messages |-> history, rerun |-> TRUE]
    ELSE LET att == IF up.docs # <<>> /\ button = "reattach" THEN FALSE ELSE up.attached
         IN  IF button = "new"
             THEN [docs |-> up.docs, attached |-> FALSE, messages |-> <<>>, rerun |-> TRUE]
             ELSE [docs |-> up.docs, attached |-> att, messages |-> history, rerun |-> FALSE]

render_sidebar(uploaded_files, api_key_input, button) ==
    LET up == SidebarUpload(uploaded_files_content, documents_attached, uploaded_files)
        r == SidebarButtons(messages, up, button)
    IN  [api_key |-> SidebarApiKey(api_key, api_key_input),
         docs |-> r.docs, attached |-> r.attached,
         messages |-> r.messages, rerun |-> r.rerun]

(***************************************************************************)
(* Vendor responses.  A JSON field is absent, null or a string.            *)
(***************************************************************************)
Absent == [tag |-> "absent", val |-> <<>>]

Null == [tag |-> "null", val |-> <<>>]

Str(s) == [tag |-> "str", val |-> s]

NoBody == [shape |-> "none", text |-> <<>>, content |-> Absent, reasoning_content |-> Absent]

TextBody(shape, text) ==
    [shape |-> shape, text |-> text, content |-> Absent, reasoning_content |-> Absent]

MessageBody(content, reasoning_content) ==
    [shape |-> "message", text |-> <<"{json}">>,
     content |-> content, reasoning_content |-> reasoning_content]

HttpResponse(post, status, body, lines, drop) ==
    [post |-> post, status |-> status, body |-> body, lines |-> lines, drop |-> drop]

NoResponse == HttpResponse("none", 0, NoBody, <<>>, FALSE)

\* SSE lines of a streaming response body.
SseLine(kind, json, reasoning_content, content) ==
    [kind |-> kind, json |-> json,
     reasoning_content |-> reasoning_content, content |-> content]

BlankLine == SseLine("blank", "none", Absent, Absent)

OtherLine == SseLine("other", "none", Absent, Absent)

DoneLine == SseLine("done", "none", Absent, Absent)

DataLine(json) == SseLine("data", json, Absent, Absent)

DeltaLine(reasoning_content, content) == SseLine("data", "delta", reasoning_content, content)

FieldValues(s) == {Absent, Null, Str(s)}

SseAlphabet ==
    {BlankLine, OtherLine, DoneLine}
        \cup {DataLine(j) : j \in {"malformed", "no_choices", "empty_choices", "no_delta"}}
        \cup {DeltaLine(r, c) : r \in FieldValues(<<"r">>), c \in FieldValues(<<"c">>)}

\* The streams the vendor answers a chat turn with in the session.
TurnStreams ==
    { <<>>,
      <<DeltaLine(Absent, Str(<<"c">>)), DoneLine>>,
      <<DeltaLine(Str(<<"r">>), Absent), DeltaLine(Absent, Str(<<"c">>)), DoneLine>>,
      <<DeltaLine(Str(<<"r">>), Null), DeltaLine(Null, Str(<<"c">>)), DoneLine>>,
      <<DeltaLine(Absent, Str(<<"c">>)), DataLine("empty_choices"), DoneLine>> }

SeqsUpTo(S, n) == UNION {[1..k -> S] : k \in 0..n}

(***************************************************************************)
(* Streaming completion client: call_deepseek_api_stream.                  *)
(***************************************************************************)
Event(type, reasoning, content) == [type |-> type, reasoning |-> reasoning, content |-> content]

GenStart ==
    [status |-> "running", pos |-> 0, reasoning_collected |-> <<>>,
     content_collected |-> <<>>, events |-> <<>>, error |-> "none"]

GenIdle == [GenStart EXCEPT !.status = "idle"]

Raise(g, error) == [g EXCEPT !.status = "raised", !.error = error]

ReasoningDelta(g, delta) ==
    IF delta.reasoning_content.tag = "absent" THEN g
    ELSE IF delta.reasoning_content.tag = "null" THEN Raise(g, "TypeError")
    ELSE [g EXCEPT !.reasoning_collected = @ \o delta.reasoning_content.val,
                   !.events = Append(@, Event("reasoning", <<>>, delta.reasoning_content.val))]

ContentDelta(g, delta) ==
    IF delta.content.tag = "absent" THEN g
    ELSE IF delta.content.tag = "null" THEN Raise(g, "TypeError")
    ELSE [g EXCEPT !.content_collected = @ \o delta.content.val,
                   !.events = Append(@, Event("content", <<>>, delta.content.val))]

StreamChunk(g, line) ==
    CASE line.json = "malformed" -> g
      [] line.json = "no_choices" -> g
      [] line.json = "empty_choices" -> Raise(g, "IndexError")
      [] line.json = "no_delta" -> g
      [] OTHER ->
            LET g1 == ReasoningDelta(g, line)
            IN  IF g1.status = "raised" THEN g1 ELSE ContentDelta(g1, line)

StreamLine(g, line) ==
    LET g0 == [g EXCEPT !.pos = @ + 1]
    IN  IF line.kind = "blank" THEN g0
        ELSE IF line.kind # "data" /\ line.kind # "done" THEN g0
        ELSE IF line.kind = "done" THEN [g0 EXCEPT !.status = "break"]
        ELSE StreamChunk(g0, line)

StreamExhausted(g, drop) ==
    IF drop THEN Raise(g, "ChunkedEncodingError") ELSE [g EXCEPT !.status = "end"]

StreamYieldDone(g) ==
    [g EXCEPT !.status = "done",
              !.events = Append(@, Event("done", g.reasoning_collected, g.content_collected))]

RECURSIVE StreamLoop(_, _, _)
StreamLoop(g, lines, drop) ==
    IF g.status # "running" THEN g
    ELSE IF g.pos = Len(lines) THEN StreamExhausted(g, drop)
    ELSE StreamLoop(StreamLine(g, lines[g.pos + 1]), lines, drop)

call_deepseek_api_stream(resp) ==
    IF resp.post = "fail" THEN Raise(GenStart, "ConnectionError")
    ELSE LET g == StreamLoop(GenStart, resp.lines, resp.drop)
         IN  IF g.status = "raised" THEN g ELSE StreamYieldDone(g)

(***************************************************************************)
(* Buffered completion client: call_deepseek_api with stream = False.      *)
(***************************************************************************)
ConnectionError(e) == [content |-> <<"Connection Error: ", e>>, reasoning |-> <<>>]

\* Mutant: the error message leaves out the response body.
ApiError_NoBody(status_code, text) ==
    [content |-> <<"API Error: ", ToString(status_code)>>, reasoning |-> <<>>]

ApiError(status_code, text) ==
    [content |-> <<"API Error: ", ToString(status_code), " - ">> \o text,
     reasoning |-> <<>>]

ParseCompletion(body) ==
    CASE body.shape = "unparsable" -> ConnectionError("JSONDecodeError")
      [] body.shape = "no_choices" -> ConnectionError("'choices'")
      [] body.shape = "empty_choices" -> ConnectionError("list index out of range")
      [] body.shape = "no_message" -> ConnectionError("'message'")
      [] OTHER ->
            IF body.content.tag = "absent" THEN ConnectionError("'content'")
            ELSE [content |-> body.content.val,
                  reasoning |-> IF body.reasoning_content.tag = "absent"
                                THEN <<>> ELSE body.reasoning_content.val]

call_deepseek_api(resp) ==
    IF resp.post = "fail" THEN ConnectionError("timeout")
    ELSE IF resp.status = HttpOk THEN ParseCompletion(resp.body)
    ELSE ApiError(resp.status, resp.body.text)

BufferedResponses ==
    {HttpResponse("fail", 0, NoBody, <<>>, FALSE),
     HttpResponse("ok", 401, TextBody("text", <<"unauthorized">>), <<>>, FALSE),
     HttpResponse("ok", 200, TextBody("unparsable", <<"<html>">>), <<>>, FALSE),
     HttpResponse("ok", 200, TextBody("no_message", <<"{json}">>), <<>>, FALSE),
     HttpResponse("ok", 200, MessageBody(Str(<<"c">>), Absent), <<>>, FALSE),
     HttpResponse("ok", 200, MessageBody(Str(<<"c">>), Str(<<"r">>)), <<>>, FALSE)}

StreamResponses ==
    {HttpResponse("fail", 0, NoBody, <<>>, FALSE),
     HttpResponse("ok", 401, NoBody, <<OtherLine>>, FALSE),
     HttpResponse("ok", 200, NoBody, <<DeltaLine(Absent, Str(<<"c">>))>>, TRUE)}
        \cup {HttpResponse("ok", 200, NoBody, l, FALSE) : l \in TurnStreams}

(***************************************************************************)
(* Chat handler: render_main_chat.                                         *)
(***************************************************************************)
\* Mutant: only the empty key is rejected.
ApiKeyRejected_EmptyOnly(key) == key = <<>>

ApiKeyRejected(key) == key = <<>> \/ ~StartsWith(key, KeyPrefix)

RECURSIVE ConsumeLoop(_, _, _)
ConsumeLoop(events, i, acc) ==
    IF i > Len(events) THEN acc
    ELSE LET chunk == events[i]
             next == CASE chunk.type = "reasoning" ->
                            [acc EXCEPT !.reasoning_text = @ \o chunk.content]
                       [] chunk.type = "content" ->
                            [acc EXCEPT !.content_text = @ \o chunk.content]
                       [] chunk.type = "done" ->
                            [acc EXCEPT !.final_reasoning = chunk.reasoning,
                                        !.final_content = chunk.content]
                       [] OTHER -> acc
         IN  ConsumeLoop(events, i + 1, next)

ConsumeStream(events) ==
    ConsumeLoop(events, 1,
        [reasoning_text |-> <<>>, content_text |-> <<>>,
         final_reasoning |-> <<>>, final_content |-> <<>>])

\* Mutant: the reasoning message is appended even when the reasoning is empty.
AppendResponse_AlwaysReasoning(history, final_content, final_reasoning) ==
    Append(Append(history, Msg("assistant", final_content)),
           Msg("assistant_reasoning", final_reasoning))

AppendResponse(history, final_content, final_reasoning) ==
    LET h == Append(history, Msg("assistant", final_content))
    IN  IF final_reasoning # <<>>
        THEN Append(h, Msg("assistant_reasoning", final_reasoning))
        ELSE h

IsPreamble(content) == StartsWith(content, <<PreambleIntro>>)

PreamblesIn(req) == {req[i].content : i \in {j \in 1..Len(req) : req[j].role = "user" /\ IsPreamble(req[j].content)}}

PairsIn(req) ==
    {i \in 1..Len(req) : req[i].role = "user" /\ IsPreamble(req[i].content)}

(***************************************************************************)
(* The session: one script run (main) per user interaction.  A run is      *)
(* render_sidebar, then render_main_chat; st.rerun() restarts the script.  *)
(***************************************************************************)
Init ==
    /\ messages = <<>>
    /\ api_key = <<>>
    /\ uploaded_files_content = <<>>
    /\ documents_attached = FALSE
    /\ stream = TRUE
    /\ widget_files = <<>>
    /\ pc = "idle"
    /\ prompt = NoPrompt
    /\ request = <<>>
    /\ response = NoResponse
    /\ outcome = "none"
    /\ posted = FALSE
    /\ pair_count = 0
    /\ fresh_replace = FALSE
    /\ sent_preambles = {}
    /\ gen = GenIdle

\* One run of render_sidebar with the widgets' values of this run.
SidebarRun(files, api_key_input, button, chat_input, user_reset) ==
    LET r == render_sidebar(files, api_key_input, button)
    IN  /\ widget_files' = files
        /\ api_key' = r.api_key
        /\ uploaded_files_content' = r.docs
        /\ documents_attached' = r.attached
        /\ messages' = r.messages
        /\ pc' = IF r.rerun THEN "rerun" ELSE "main"
        /\ prompt' = IF r.rerun THEN NoPrompt ELSE chat_input
        /\ request' = <<>>
        /\ response' = NoResponse
        /\ outcome' = "none"
        /\ posted' = FALSE
        /\ pair_count' = IF user_reset THEN 0 ELSE pair_count
        /\ fresh_replace' = IF r.docs = <<>> THEN FALSE
                            ELSE IF files # <<>> THEN TRUE ELSE fresh_replace
        /\ UNCHANGED <<sent_preambles, gen>>

ClickReattach ==
    /\ pc = "idle"
    /\ uploaded_files_content # <<>>
    /\ SidebarRun(widget_files, api_key, "reattach", NoPrompt, TRUE)
    /\ UNCHANGED stream

ClickNewConversation ==
    /\ pc = "idle"
    /\ SidebarRun(widget_files, api_key, "new", NoPrompt, TRUE)
    /\ UNCHANGED stream

ClickClear ==
    /\ pc = "idle"
    /\ uploaded_files_content # <<>>
    /\ SidebarRun(widget_files, api_key, "clear", NoPrompt, TRUE)
    /\ UNCHANGED stream

UploadFiles ==
    \E files \in FileBatches :
        /\ pc = "idle"
        /\ files # widget_files
        /\ SidebarRun(files, api_key, "none", NoPrompt, TRUE)
        /\ UNCHANGED stream

EnterApiKey ==
    \E k \in ApiKeyInputs :
        /\ pc = "idle"
        /\ k # api_key
        /\ SidebarRun(widget_files, k, "none", NoPrompt, FALSE)
        /\ UNCHANGED stream

ToggleStream ==
    /\ pc = "idle"
    /\ stream' = ~stream
    /\ SidebarRun(widget_files, api_key, "none", NoPrompt, FALSE)

SubmitPrompt ==
    \E p \in TurnPrompts :
        /\ pc = "idle"
        /\ Len(messages) + 3 <= MaxHistory
        /\ SidebarRun(widget_files, api_key, "none", p, FALSE)
        /\ UNCHANGED stream

Rerun ==
    /\ pc = "rerun"
    /\ SidebarRun(widget_files, api_key, "none", NoPrompt, FALSE)
    /\ UNCHANGED stream

MainNoPrompt ==
    /\ pc = "main"
    /\ prompt = NoPrompt
    /\ pc' = "idle"
    /\ outcome' = "no_prompt"
    /\ UNCHANGED <<sessionVars, ghostVars, prompt, request, response, posted, gen>>

MainRejectKey ==
    /\ pc = "main"
    /\ prompt # NoPrompt
    /\ ApiKeyRejected(api_key)
    /\ pc' = "idle"
    /\ outcome' = "rejected"
    /\ prompt' = NoPrompt
    /\ UNCHANGED <<sessionVars, ghostVars, request, response, posted, gen>>

MainBuild ==
    /\ pc = "main"
    /\ prompt # NoPrompt
    /\ ~ApiKeyRejected(api_key)
    /\ LET history == Append(messages, Msg("user", prompt))
           built == build_conversation_messages(
                        history, uploaded_files_content, documents_attached, prompt)
       IN  /\ messages' = history
           /\ request' = built.messages
           /\ documents_attached' = built.documents_attached
           /\ pair_count' = pair_count + Cardinality(PairsIn(built.messages))
           /\ sent_preambles' = sent_preambles \cup PreamblesIn(built.messages)
    /\ pc' = "call"
    /\ outcome' = "built"
    /\ UNCHANGED <<api_key, uploaded_files_content, stream, widget_files,
                   prompt, response, posted, fresh_replace, gen>>

CallBuffered ==
    \E resp \in BufferedResponses :
        /\ pc = "call"
        /\ ~stream
        /\ LET result == call_deepseek_api(resp)
           IN  messages' = AppendResponse(messages, result.content, result.reasoning)
        /\ response' = resp
        /\ outcome' = "answered"
        /\ posted' = TRUE
        /\ pc' = "idle"
        /\ prompt' = NoPrompt
        /\ request' = <<>>
        /\ fresh_replace' = FALSE
        /\ UNCHANGED <<api_key, uploaded_files_content, documents_attached, stream,
                       widget_files, pair_count, sent_preambles, gen>>

CallStream ==
    \E resp \in StreamResponses :
        /\ pc = "call"
        /\ stream
        /\ LET g == call_deepseek_api_stream(resp)
               final == ConsumeStream(g.events)
           IN  IF g.status = "raised"
               THEN /\ messages' = messages
                    /\ outcome' = "escaped"
               ELSE /\ messages' = AppendResponse(
                                       messages, final.final_content, final.final_reasoning)
                    /\ outcome' = "answered"
        /\ response' = resp
        /\ posted' = TRUE
        /\ pc' = "idle"
        /\ prompt' = NoPrompt
        /\ request' = <<>>
        /\ fresh_replace' = FALSE
        /\ UNCHANGED <<api_key, uploaded_files_content, documents_attached, stream,
                       widget_files, pair_count, sent_preambles, gen>>

Next ==
    \/ ClickReattach
    \/ ClickNewConversation
    \/ ClickClear
    \/ UploadFiles
    \/ EnterApiKey
    \/ ToggleStream
    \/ SubmitPrompt
    \/ Rerun
    \/ MainNoPrompt
    \/ MainRejectKey
    \/ MainBuild
    \/ CallBuffered
    \/ CallStream

Spec == Init /\ [][Next]_vars

(***************************************************************************)
(* The conversation builder on its own: every history, store, flag and     *)
(* prompt within the bounds, built directly (BuildDirect) or through the   *)
(* chat handler (MainBuild).                                               *)
(***************************************************************************)
HistoryMessages ==
    {Msg(role, content) : role \in {"user", "assistant", "assistant_reasoning"},
                          content \in Prompts}

InitBuild ==
    /\ messages \in SeqsUpTo(HistoryMessages, MaxBuildHistory)
    /\ api_key = <<"s", "k", "-", "1">>
    /\ uploaded_files_content \in {ProcessBatch(files) : files \in FileBatches}
    /\ documents_attached \in BOOLEAN
    /\ stream = TRUE
    /\ widget_files = <<>>
    /\ pc = "main"
    /\ prompt \in Prompts
    /\ request = <<>>
    /\ response = NoResponse
    /\ outcome = "none"
    /\ posted = FALSE
    /\ pair_count = 0
    /\ fresh_replace = FALSE
    /\ sent_preambles = {}
    /\ gen = GenIdle

BuildDirect ==
    /\ pc = "main"
    /\ LET built == build_conversation_messages(
                        messages, uploaded_files_content, documents_attached, prompt)
       IN  /\ request' = built.messages
           /\ documents_attached' = built.documents_attached
    /\ pc' = "built"
    /\ UNCHANGED <<messages, api_key, uploaded_files_content, stream, widget_files,
                   prompt, response, outcome, posted, ghostVars, gen>>

NextBuild ==
    \/ BuildDirect
    \/ MainBuild

SpecBuild == InitBuild /\ [][NextBuild]_vars

(***************************************************************************)
(* The streaming client on its own: the generator reading every sequence   *)
(* of SSE lines within the bounds, line by line, and the chat handler's    *)
(* loop consuming its events.                                              *)
(***************************************************************************)
InitStream ==
    /\ messages = << Msg("user", <<"p1">>) >>
    /\ api_key = <<"s", "k", "-", "1">>
    /\ uploaded_files_content = <<>>
    /\ documents_attached = FALSE
    /\ stream = TRUE
    /\ widget_files = <<>>
    /\ pc = "stream"
    /\ prompt = <<"p1">>
    /\ request = << Msg("system", system_prompt), Msg("user", <<"p1">>) >>
    /\ response \in {HttpResponse("ok", HttpOk, NoBody, lines, FALSE) :
                        lines \in SeqsUpTo(SseAlphabet, MaxLines)}
    /\ outcome = "built"
    /\ posted = TRUE
    /\ pair_count = 0
    /\ fresh_replace = FALSE
    /\ sent_preambles = {}
    /\ gen = GenStart

StreamReadLine ==
    /\ pc = "stream"
    /\ gen.status = "running"
    /\ gen.pos < Len(response.lines)
    /\ gen' = StreamLine(gen, response.lines[gen.pos + 1])
    /\ UNCHANGED <<sessionVars, ghostVars, pc, prompt, request, response, outcome, posted>>

StreamEndOfBody ==
    /\ pc = "stream"
    /\ gen.status = "running"
    /\ gen.pos = Len(response.lines)
    /\ gen' = StreamExhausted(gen, response.drop)
    /\ UNCHANGED <<sessionVars, ghostVars, pc, prompt, request, response, outcome, posted>>

StreamDone ==
    /\ pc = "stream"
    /\ gen.status \in {"break", "end"}
    /\ gen' = StreamYieldDone(gen)
    /\ UNCHANGED <<sessionVars, ghostVars, pc, prompt, request, response, outcome, posted>>

StreamConsume ==
    /\ pc = "stream"
    /\ gen.status \in {"done", "raised"}
    /\ LET final == ConsumeStream(gen.events)
       IN  IF gen.status = "raised"
           THEN /\ messages' = messages
                /\ outcome' = "escaped"
           ELSE /\ messages' = AppendResponse(
                                   messages, final.final_content, final.final_reasoning)
                /\ outcome' = "answered"
    /\ pc' = "stream_end"
    /\ UNCHANGED <<api_key, uploaded_files_content, documents_attached, stream,
                   widget_files, ghostVars, prompt, request, response, posted, gen>>

NextStream ==
    \/ StreamReadLine
    \/ StreamEndOfBody
    \/ StreamDone
    \/ StreamConsume

SpecStream == InitStream /\ [][NextStream]_vars

(***************************************************************************)
(* Properties.                                                             *)
(***************************************************************************)
Last(s) == s[Len(s)]

\* Positions of the document section labels in a preamble, and the labels read back.
LabelPositions(content) == {k \in 1..Len(content) : content[k] = "--- Document "}

LabelAt(content, i) ==
    CHOOSE k \in LabelPositions(content) :
        Cardinality({j \in LabelPositions(content) : j <= k}) = i

SectionsMatch(content, docs) ==
    /\ Cardinality(LabelPositions(content)) = Len(docs)
    /\ \A i \in 1..Len(docs) :
           LET k == LabelAt(content, i)
           IN  /\ content[k + 1] = ToString(i)
               /\ content[k + 3] = docs[i].name

ExactlyOnePair(req, docs) ==
    /\ PairsIn(req) = {2}
    /\ {i \in 1..Len(req) : req[i] = Msg("assistant", AckText)} = {3}
    /\ SectionsMatch(req[2].content, docs)

\* C1: documents are attached once: between two user resets (a change of the
\* uploaded files, clear, re-attach, new conversation) at most one of the
\* requests built carries the document preamble/acknowledgment pair, although
\* every run re-runs the upload handler while the uploader holds files.
C1_AttachedOnce == pair_count <= 1

\* C2: replacing the store with a non-empty batch sets documents_attached to
\* false, and the next request built afterwards (no clear in between) carries
\* exactly one preamble user message, immediately followed by exactly one
\* acknowledgment, with one labeled section per stored document in store
\* order, and leaves documents_attached true.
C2_ReplaceThenAttach ==
    /\ (pc = "main" /\ widget_files # <<>>) =>
           /\ Len(uploaded_files_content) = Len(widget_files)
           /\ \A i \in 1..Len(widget_files) :
                  uploaded_files_content[i].name = widget_files[i].name
           /\ ~documents_attached
    /\ (pc = "call" /\ fresh_replace) =>
           /\ ExactlyOnePair(request, uploaded_files_content)
           /\ documents_attached

C2_Witness ==
    /\ pc = "call"
    /\ fresh_replace
    /\ Len(uploaded_files_content) = 2
    /\ Len(messages) >= 3
    /\ PairsIn(request) = {2}

\* C3 (as stated): documents_attached is true if and only if the current store
\* contents have been included in some prior request.
C3_AttachedIffSent ==
    documents_attached <=>
        (uploaded_files_content # <<>>
            /\ PreambleContent(uploaded_files_content) \in sent_preambles)

\* C3 (amended): if documents_attached is true then the store is non-empty and
\* its current contents have been included in some prior request.
C3_AttachedImpliesSent ==
    documents_attached =>
        (uploaded_files_content # <<>>
            /\ PreambleContent(uploaded_files_content) \in sent_preambles)

C3_Witness ==
    /\ documents_attached
    /\ pc = "idle"
    /\ outcome = "answered"
    /\ Cardinality(sent_preambles) = 2

\* The events the stream contract asks for: the fragments of the lines before
\* the first [DONE], reasoning before content, everything else skipped.
FieldEvent(type, field) ==
    IF field.tag = "str" THEN << Event(type, <<>>, field.val) >> ELSE <<>>

RECURSIVE ExpectedEvents(_, _)
ExpectedEvents(lines, i) ==
    IF i > Len(lines) \/ lines[i].kind = "done" THEN <<>>
    ELSE (IF lines[i].kind = "data" /\ lines[i].json = "delta"
          THEN FieldEvent("reasoning", lines[i].reasoning_content)
                   \o FieldEvent("content", lines[i].content)
          ELSE <<>>) \o ExpectedEvents(lines, i + 1)

RECURSIVE Collected(_, _)
Collected(events, type) ==
    IF events = <<>> THEN <<>>
    ELSE (IF Head(events).type = type THEN Head(events).content ELSE <<>>)
             \o Collected(Tail(events), type)

\* C4: for every sequence of SSE lines the stream emits the fragments' events
\* in order up to the first [DONE], then exactly one done event, last, whose
\* reasoning and content are the concatenations of the emitted fragments; the
\* assistant message stored is that done content.
C4_StreamEndsWithDone ==
    pc = "stream_end" =>
        /\ gen.events # <<>>
        /\ Last(gen.events).type = "done"
        /\ Cardinality({i \in 1..Len(gen.events) : gen.events[i].type = "done"}) = 1
        /\ SubSeq(gen.events, 1, Len(gen.events) - 1) = ExpectedEvents(response.lines, 1)
        /\ Last(gen.events).reasoning = Collected(gen.events, "reasoning")
        /\ Last(gen.events).content = Collected(gen.events, "content")
        /\ Len(messages) >= 2
        /\ messages[2] = Msg("assistant", Last(gen.events).content)

\* The assistant message a turn appended: the last message, or the one before
\* a trailing assistant_reasoning message.
AnswerIndex(history) ==
    IF Last(history).role = "assistant_reasoning" THEN Len(history) - 1 ELSE Len(history)

VendorFailed(resp) == resp.post = "fail" \/ resp.status # HttpOk \/ resp.drop

\* C5: every chat turn that passes key validation completes without an
\* exception escaping, in either mode and whatever the vendor call does;
\* exactly one assistant message follows the user message, and on an HTTP
\* non-success or a transport failure its content is a non-empty error message.
C5_NoFatalFailure ==
    (pc = "idle" /\ posted) =>
        /\ outcome = "answered"
        /\ Len(messages) >= 2
        /\ AnswerIndex(messages) >= 2
        /\ messages[AnswerIndex(messages)].role = "assistant"
        /\ messages[AnswerIndex(messages) - 1].role = "user"
        /\ VendorFailed(response) => messages[AnswerIndex(messages)].content # <<>>

\* C6: a data fragment that is malformed or lacks a field (no choices, empty
\* choices, no delta, content or reasoning_content absent or null) is skipped
\* without an event and without raising; the later fragments are processed
\* and the done event is emitted.
C6_MalformedSkipped ==
    /\ gen.status # "raised"
    /\ pc = "stream_end" =>
           /\ outcome = "answered"
           /\ Len(gen.events) = Len(ExpectedEvents(response.lines, 1)) + 1

\* C7: the buffered client never raises and returns {content, reasoning}: on a
\* non-200 the content holds the status code and the raw body and reasoning is
\* empty; on a transport failure or an unparsable 200 body the content is a
\* connection-error message and reasoning is empty; on a well-formed 200 the
\* content is the message's content and reasoning the reasoning field, or
\* empty when absent.
C7_BufferedRecovers ==
    (pc = "idle" /\ posted /\ ~stream) =>
        /\ outcome = "answered"
        /\ LET a == AnswerIndex(messages)
               content == messages[a].content
               reasoning == IF a = Len(messages) THEN <<>> ELSE Last(messages).content
           IN  /\ messages[a].role = "assistant"
               /\ (response.post = "ok" /\ response.status # HttpOk) =>
                      /\ Contains(content, <<ToString(response.status)>>)
                      /\ Contains(content, response.body.text)
                      /\ reasoning = <<>>
               /\ (response.post = "fail"
                      \/ (response.status = HttpOk /\ response.body.shape = "unparsable")) =>
                      /\ Head(content) = "Connection Error: "
                      /\ reasoning = <<>>
               /\ (response.post = "ok" /\ response.status = HttpOk
                      /\ response.body.shape = "message") =>
                      /\ content = response.body.content.val
                      /\ reasoning = response.body.reasoning_content.val

C7_Witness ==
    /\ pc = "idle"
    /\ posted
    /\ ~stream
    /\ response.status = 401
    /\ response.body.text = <<"unauthorized">>

\* Number of messages a request leads with: the system message and, when
\* present, the document pair.
Lead(req) == IF PairsIn(req) # {} THEN 3 ELSE 1

Replayed(history) == SelectSeq(history, LAMBDA m : m.role # "assistant_reasoning")

\* C8: when the last message appended from the history is a user message equal
\* to the prompt, build appends nothing for the prompt; otherwise it appends
\* exactly one user message with the prompt, last.  In the chat handler, which
\* appends the prompt to the history before building, the request ends with
\* the prompt and the builder adds no second copy.
C8_DuplicateGuard ==
    /\ pc = "built" =>
           LET h == Replayed(messages)
               dup == h # <<>> /\ Last(h) = Msg("user", prompt)
           IN  IF dup
               THEN Len(request) = Lead(request) + Len(h)
               ELSE /\ Len(request) = Lead(request) + Len(h) + 1
                    /\ Last(request) = Msg("user", prompt)
    /\ pc = "call" =>
           /\ Last(request) = Msg("user", prompt)
           /\ Len(request) = Lead(request) + Len(Replayed(messages))

C8_Witness ==
    /\ pc = "built"
    /\ Len(messages) = 3
    /\ Last(messages) = Msg("user", prompt)
    /\ Len(request) = Lead(request) + 3

\* C9: a request holds no assistant_reasoning message; after the single leading
\* system message and the document pair, when present, the user and assistant
\* messages of the history follow in their original order.
C9_NoReasoningReplayed ==
    request # <<>> =>
        /\ \A i \in 1..Len(request) : request[i].role \in {"system", "user", "assistant"}
        /\ {i \in 1..Len(request) : request[i].role = "system"} = {1}
        /\ Len(request) >= Lead(request) + Len(Replayed(messages))
        /\ SubSeq(request, Lead(request) + 1, Lead(request) + Len(Replayed(messages)))
               = Replayed(messages)

C9_Witness ==
    /\ pc = "built"
    /\ PairsIn(request) = {2}
    /\ Len(messages) = 3
    /\ messages[2].role = "assistant_reasoning"
    /\ messages[1] # messages[3]

\* C10: a prompt submitted while the API key is empty or does not start with
\* sk- is rejected before anything happens: no request is built, no network
\* call is made, the prompt is not appended to the history and the chat
\* handler does not set documents_attached.
C10_RejectedTurn ==
    [][(pc = "main" /\ prompt # NoPrompt
            /\ (api_key = <<>> \/ ~StartsWith(api_key, KeyPrefix))) =>
           /\ messages' = messages
           /\ documents_attached' = documents_attached
           /\ request' = <<>>
           /\ ~posted'
           /\ pc' = "idle"]_vars

C10_Witness ==
    /\ pc = "idle"
    /\ outcome = "rejected"
    /\ api_key = <<"p", "k", "-", "1">>
    /\ uploaded_files_content # <<>>
    /\ ~documents_attached
    /\ messages = <<>>

\* The final reasoning a vendor response carries: the reasoning fragments of a
\* stream, the reasoning_content of a well-formed buffered completion, empty
\* for a recovered failure.
FinalReasoning(resp, streaming) ==
    IF streaming THEN Collected(ExpectedEvents(resp.lines, 1), "reasoning")
    ELSE IF resp.post = "ok" /\ resp.status = HttpOk /\ resp.body.shape = "message"
              /\ resp.body.content.tag = "str"
         THEN resp.body.reasoning_content.val
         ELSE <<>>

\* C11: a completed chat turn appends to the history, in this order and
\* nothing else: the user message with the prompt (before the request is
\* built), one assistant message with the final content, and one
\* assistant_reasoning message with the final reasoning if and only if that
\* reasoning is non-empty; no earlier entry is modified, reordered or removed.
C11_TurnAppends ==
    [][/\ (pc = "main" /\ pc' = "call") =>
              /\ messages' = Append(messages, Msg("user", prompt))
              /\ Last(request') = Last(messages')
       /\ (pc = "main" /\ pc' = "idle") => messages' = messages
       /\ (pc = "call" /\ outcome' = "escaped") => messages' = messages
       /\ (pc = "call" /\ outcome' = "answered") =>
              LET n == Len(messages)
                  reasoning == FinalReasoning(response', stream)
              IN  /\ Len(messages') = IF reasoning # <<>> THEN n + 2 ELSE n + 1
                  /\ SubSeq(messages', 1, n) = messages
                  /\ messages'[n + 1].role = "assistant"
                  /\ stream =>
                         messages'[n + 1].content
                             = Collected(ExpectedEvents(response'.lines, 1), "content")
                  /\ (~stream /\ FinalReasoning(response', FALSE) # <<>>) =>
                         messages'[n + 1].content = response'.body.content.val
                  /\ reasoning # <<>> =>
                         messages'[n + 2] = Msg("assistant_reasoning", reasoning)]_vars

C11_Witness ==
    /\ pc = "idle"
    /\ outcome = "answered"
    /\ Len(messages) = 6
    /\ messages[3].role = "assistant_reasoning"
    /\ messages[5].role = "assistant"
    /\ messages[6].role = "assistant_reasoning"

\* C12: frame of the reset actions, each taken with the script restart
\* (st.rerun) it ends with: new conversation empties the history and sets
\* documents_attached to false, leaving the store unchanged; an upload
\* replaces the store and sets documents_attached to false, leaving the
\* history unchanged; clear documents empties the store and sets
\* documents_attached to false, leaving the history unchanged.
C12_ResetFrames ==
    [][/\ ClickNewConversation =>
              /\ messages' = <<>>
              /\ ~documents_attached'
              /\ uploaded_files_content' = uploaded_files_content
       /\ (UploadFiles /\ widget_files' # <<>>) =>
              /\ Len(uploaded_files_content') = Len(widget_files')
              /\ \A i \in 1..Len(widget_files') :
                     /\ uploaded_files_content'[i].name = widget_files'[i].name
                     /\ uploaded_files_content'[i].content = widget_files'[i].text
              /\ ~documents_attached'
              /\ messages' = messages
       /\ ClickClear =>
              /\ uploaded_files_content' = <<>>
              /\ ~documents_attached'
              /\ messages' = messages
       /\ Rerun =>
              /\ uploaded_files_content' = uploaded_files_content
              /\ documents_attached' = documents_attached
              /\ messages' = messages]_vars

\* The tokens of the stored documents' text and of their labeled sections.
Range(s) == {s[i] : i \in 1..Len(s)}

DocumentTokens(docs) ==
    {"=== DOCUMENTS ===\n\n", "--- Document "}
        \cup UNION {Range(docs[i].content) \cup {docs[i].name} : i \in 1..Len(docs)}

NoDocumentText(msgs, docs) ==
    \A i \in 1..Len(msgs) :
        /\ ~IsPreamble(msgs[i].content)
        /\ msgs[i] # Msg("assistant", AckText)
        /\ Range(msgs[i].content) \cap DocumentTokens(docs) = {}

\* C13: the document pair lives only in the request and is never added to the
\* history; a request built while documents_attached is true holds no
\* document text at all; when the pair is present it sits right after the
\* system message, before all history, even when the documents were uploaded
\* in the middle of a conversation.
C13_PairOnlyInRequest ==
    [][/\ NoDocumentText(messages', uploaded_files_content')
       /\ (pc = "main" /\ pc' = "call" /\ documents_attached) =>
              NoDocumentText(request', uploaded_files_content')
       /\ (request' # <<>> /\ ~NoDocumentText(request', uploaded_files_content')) =>
              /\ request'[1].role = "system"
              /\ request'[2] = Msg("user", PreambleContent(uploaded_files_content'))
              /\ request'[3] = Msg("assistant", AckText)
              /\ NoDocumentText(SubSeq(request', 4, Len(request')),
                                uploaded_files_content')
              /\ SubSeq(request', 4, Len(request')) = Replayed(messages')]_vars

C13_Witness ==
    /\ pc = "call"
    /\ documents_attached
    /\ uploaded_files_content # <<>>
    /\ widget_files = <<>>
    /\ Len(messages) >= 3
    /\ NoDocumentText(request, uploaded_files_content)

====
